---- MODULE Spec2Model ----
(***************************************************************************)
(* A state-machine model of the practice application (dongildonlee/lms):   *)
(* the attempt / answer / view-time tables and the handlers of             *)
(* practice/views.py, practice/api.py and practice/views_tex.py that read  *)
(* and write them, the URL table of practice/urls.py, and the LaTeX        *)
(* rendering cache of tex_svg with its concurrent requests.                *)
(***************************************************************************)
EXTENDS Integers, Sequences, FiniteSets, TLC

(***************************************************************************)
(* Bounds of the model.                                                    *)
(***************************************************************************)
MaxAttempts == 1
MaxItems == 2
MaxViews == 2

(***************************************************************************)
(* Users (django.contrib.auth).  request.user of a request that is not     *)
(* signed in is AnonymousUser, whose id is None; it is written 0 here.     *)
(***************************************************************************)
Anonymous == 0
Users == {1, 2, 3, 4}
Requesters == Users \cup {Anonymous}

\* user.is_staff of each row of auth_user
is_staff(user) == user = 3

\* user.groups: the names of the groups the user is a member of
groups(user) ==
    CASE user = 4 -> {"Teachers"}
      [] user = 2 -> {"Students"}
      [] OTHER    -> {}

is_authenticated(user) == user /= Anonymous

\* a plausible slip: any group membership counts
user_is_teacher_any_group(user) == is_staff(user) \/ groups(user) /= {}

\* views.user_is_teacher
user_is_teacher(user) == is_staff(user) \/ "Teachers" \in groups(user)

(***************************************************************************)
(* Characters and text.  A text is a tuple of one-character strings.       *)
(***************************************************************************)
\* str.lower on one character
LowerChar(c) ==
    CASE c = "A" -> "a"
      [] c = "B" -> "b"
      [] OTHER   -> c

\* the characters str.split() treats as separators
IsSpace(c) == c \in {" ", "\t", "\n"}

\* a slip: the texts are compared without .lower()
norm_case_sensitive(s) == SelectSeq(s, LAMBDA c : ~IsSpace(c))

RECURSIVE norm(_)
\* norm = lambda s: "".join((s or "").lower().split())
norm(s) ==
    IF s = <<>> THEN <<>>
    ELSE IF IsSpace(Head(s)) THEN norm(Tail(s))
    ELSE <<LowerChar(Head(s))>> \o norm(Tail(s))

(***************************************************************************)
(* JSON values of request bodies.  A value is a tagged record:             *)
(*   [t |-> "missing"]  the key is absent                                  *)
(*   [t |-> "null"]     JSON null (Python None)                            *)
(*   [t |-> "int", v]   a JSON integer                                     *)
(*   [t |-> "str", s]   a JSON string, s a tuple of characters             *)
(***************************************************************************)
JMissing == [t |-> "missing"]
JNull == [t |-> "null"]
JInt(n) == [t |-> "int", v |-> n]
JStr(s) == [t |-> "str", s |-> s]

\* dict.get(key): an absent key reads as None
Get(j) == IF j.t = "missing" THEN JNull ELSE j

\* dict.get(key, default)
GetDefault(j, d) == IF j.t = "missing" THEN d ELSE j

\* Python truthiness of a value
Truthy(j) ==
    CASE j.t = "int" -> j.v /= 0
      [] j.t = "str" -> j.s /= <<>>
      [] OTHER       -> FALSE

\* x or d
OrElse(j, d) == IF Truthy(j) THEN j ELSE d

\* the decimal digits int() reads from a string
DigitValue(c) ==
    CASE c = "0" -> 0
      [] c = "1" -> 1
      [] c = "2" -> 2
      [] c = "7" -> 7
      [] OTHER   -> -1

\* int(x): [ok |-> TRUE, v |-> n], or [ok |-> FALSE] for TypeError / ValueError.
\* Strings of the model have at most one digit, with an optional sign.
PyInt(j) ==
    CASE j.t = "int" -> [ok |-> TRUE, v |-> j.v]
      [] j.t = "str" ->
            IF Len(j.s) = 1 /\ DigitValue(j.s[1]) >= 0
                THEN [ok |-> TRUE, v |-> DigitValue(j.s[1])]
            ELSE IF Len(j.s) = 2 /\ j.s[1] = "-" /\ DigitValue(j.s[2]) >= 0
                THEN [ok |-> TRUE, v |-> 0 - DigitValue(j.s[2])]
            ELSE [ok |-> FALSE]
      [] OTHER -> [ok |-> FALSE]

\* max(0, n)
Max0(n) == IF n < 0 THEN 0 ELSE n

(***************************************************************************)
(* Questions.  No handler of this model writes the Question table; its     *)
(* rows are fixed.  stem_md is a LaTeX snippet, a tuple of tokens.         *)
(***************************************************************************)
QuestionIds == {1, 2}

QuestionRow(id) ==
    CASE id = 1 -> [id |-> 1, type |-> "mcq",
                    correct |-> [choice |-> JStr(<<"A">>), value |-> JMissing,
                                 text |-> JMissing, tolerance |-> JMissing],
                    stem_md |-> <<"x", "^", "2">>]
      [] OTHER  -> [id |-> 2, type |-> "short",
                    correct |-> [choice |-> JMissing, value |-> JMissing,
                                 text |-> JStr(<<"A", " ", "b">>), tolerance |-> JMissing],
                    stem_md |-> <<"\\input", "{", "a", "}">>]

\* float(x) in thousandths: [ok |-> TRUE, v |-> n] or [ok |-> FALSE]
PyFloat(j) ==
    CASE j.t = "int" -> [ok |-> TRUE, v |-> 1000 * j.v]
      [] j.t = "str" ->
            IF PyInt(j).ok THEN [ok |-> TRUE, v |-> 1000 * PyInt(j).v]
            ELSE [ok |-> FALSE]
      [] OTHER -> [ok |-> FALSE]

Abs(n) == IF n < 0 THEN 0 - n ELSE n

\* the text of a value handed to norm: (s or "")
TextOf(j) == IF j.t = "str" THEN j.s ELSE <<>>

\* views.evaluate_answer(q, submitted)
evaluate_answer(q, submitted) ==
    CASE q.type = "mcq" -> Get(submitted.choice) = Get(q.correct.choice)
      [] q.type = "numeric" ->
            LET val == PyFloat(Get(submitted.value))
                true == PyFloat(Get(q.correct.value))
                eps == IF q.correct.tolerance.t = "missing" THEN 1
                       ELSE PyFloat(q.correct.tolerance).v
            IN  IF ~val.ok \/ ~true.ok THEN FALSE
                ELSE Abs(val.v - true.v) <= eps
      [] q.type \in {"short", "algebra"} ->
            norm(TextOf(Get(submitted.text))) = norm(TextOf(Get(q.correct.text)))
      [] OTHER -> FALSE

\* request.data.get("answer") or {} : the answers clients send
NoAnswer == [choice |-> JMissing, value |-> JMissing, text |-> JMissing]
Answers ==
    { [NoAnswer EXCEPT !.choice = JStr(<<"A">>)],
      [NoAnswer EXCEPT !.text = JStr(<<"a", "B">>)] }

VARIABLES
    attempts,   \* Attempt rows: attempts[id] is the row's student_id, id = 1..Len
    items,      \* AttemptItem rows in insertion order (id = index)
    views,      \* AttemptView rows in insertion order
    viewlogs,   \* AttemptViewLog rows in insertion order
    now,        \* timezone.now() of the server clock
    resp,       \* the response of the last request handled
    TECTONIC_BIN,   \* views_tex.TECTONIC_BIN, set when the module is imported
    files,      \* static/texcache: the directory entries, file name -> inode
    data,       \* how much of each inode's content is written
    svg_pc,     \* where each worker is in tex_svg
    svg_tex,    \* tex_svg's local tex of each worker
    svg_ext,    \* the format each worker is installing
    svg_fd,     \* the inode each worker holds open for writing (0: none)
    started,    \* tex_svg requests accepted so far
    call,       \* the function being called outside a request, with its arguments
    ret,        \* what that call returned
    users,      \* the ids of the auth User rows
    profiles,   \* StudentProfile rows: profiles[user_id] is the row's sid
    next_user_id,   \* the id the next User row gets
    sig_pc,     \* where each worker is in User.save() and its post_save receiver
    sig_user,   \* the User instance each worker is saving
    sig_errors, \* the users whose save raised IntegrityError
    walk_pc,    \* where import_mc_enumerate's handle is in its walk of one file
    tok_pos,    \* where TOKEN_RE.finditer looks for its next match (from 0)
    stack,      \* handle's stack: the label of each enumerate it has open
    current_item_start,     \* handle's current_item_start
    current_item_label,     \* handle's current_item_label
    problem_items           \* handle's problem_items

uservars == <<users, profiles, next_user_id, sig_pc, sig_user, sig_errors>>
svgvars == <<files, data, svg_pc, svg_tex, svg_ext, svg_fd, started>>
callvars == <<call, ret>>
walkvars == <<walk_pc, tok_pos, stack, current_item_start, current_item_label, problem_items>>
texvars == <<TECTONIC_BIN, svgvars, callvars, uservars, walkvars>>
dbvars == <<attempts, items, views, viewlogs, now, texvars>>
vars == <<attempts, items, views, viewlogs, now, resp, texvars>>

NoResponse == [op |-> "none"]

InitDb ==
    /\ attempts = <<>>
    /\ items = <<>>
    /\ views = <<>>
    /\ viewlogs = <<>>
    /\ now = 0
    /\ resp = NoResponse

\* TECTONIC_BIN as the module computed it at import: a path, or None
BinValues == {"None", "bin/tectonic"}

InitTex ==
    /\ TECTONIC_BIN \in BinValues

\* the worker processes that serve requests side by side
Workers == {1, 2}

NoFiles == [p \in {} |-> 0]
NoTex == <<>>

\* no tex_svg request is being handled
InitWorkers ==
    /\ svg_pc = [w \in Workers |-> "idle"]
    /\ svg_tex = [w \in Workers |-> NoTex]
    /\ svg_ext = [w \in Workers |-> "none"]
    /\ svg_fd = [w \in Workers |-> 0]
    /\ started = 0

NoCall == [fn |-> "none"]
NoResult == [returned |-> FALSE]

\* no function is being called outside a request
InitCalls ==
    /\ call = NoCall
    /\ ret = NoResult

\* no User row has been saved through User.save() yet; the accounts that
\* send requests (Users) hold the ids below next_user_id
InitUsers ==
    /\ users = {}
    /\ profiles = NoFiles
    /\ next_user_id = 5
    /\ sig_pc = [w \in Workers |-> "idle"]
    /\ sig_user = [w \in Workers |-> 0]
    /\ sig_errors = {}

NoIndex == -1
NoLabel == "None"

\* no file is being imported
InitWalk ==
    /\ walk_pc = "idle"
    /\ tok_pos = 0
    /\ stack = <<>>
    /\ current_item_start = NoIndex
    /\ current_item_label = NoLabel
    /\ problem_items = <<>>

\* the server after start-up, with an empty static/texcache
InitServer ==
    /\ InitDb /\ InitTex /\ InitWorkers /\ files = NoFiles /\ data = NoFiles /\ InitUsers
    /\ InitWalk

Init == InitServer /\ InitCalls

AttemptIds == 1..Len(attempts)
\* attempt ids a client may name: the existing ones and one that does not exist
AttemptIdArgs == 1..(MaxAttempts + 1)
\* the requesters that start attempts: the students, signed in or not
AttemptCreators == {Anonymous, 1, 2}
\* the student ids a client names: its own or another user's
StudentIdArgs == {1, 2}
QuestionIdArgs == QuestionIds \cup {3}

\* the values timezone.now() may return when a row is created: the clock does
\* not run backwards, and two readings may agree; now is the last reading, and
\* the first reading is the origin of the time scale
ClockReadings == IF items = <<>> THEN {now} ELSE {now, now + 1}

\* requests are handled one after another: a handler starts when the response
\* of the request before it has been sent
Idle == resp = NoResponse

\* the response is sent to the client
SendResponse ==
    /\ resp /= NoResponse
    /\ resp' = NoResponse
    /\ UNCHANGED dbvars

\* what IsAuthenticated answers a request that is not signed in
NotAuthenticated(op, user) ==
    [op |-> op, user |-> user, status |-> 403,
     body |-> [detail |-> "Authentication credentials were not provided."]]

\* views.create_attempt
create_attempt(user) ==
    /\ Idle
    /\ IF ~is_authenticated(user)
       THEN /\ resp' = NotAuthenticated("create_attempt", user)
            /\ UNCHANGED attempts
       ELSE /\ Len(attempts) < MaxAttempts
            /\ attempts' = Append(attempts, user)
            /\ resp' = [op |-> "create_attempt", user |-> user, status |-> 201,
                        body |-> [attempt_id |-> Len(attempts) + 1]]
    /\ UNCHANGED <<items, views, viewlogs, now, texvars>>

\* views.submit_attempt_item, its permission test
submit_forbidden(user, attempt_id) ==
    attempts[attempt_id] /= user /\ ~user_is_teacher(user)

\* views.submit_attempt_item
submit_attempt_item(user, attempt_id, question_id, answer, t) ==
    /\ Idle
    /\ IF ~is_authenticated(user)
       THEN /\ resp' = NotAuthenticated("submit_attempt_item", user)
            /\ UNCHANGED <<items, now>>
       ELSE IF attempt_id \notin AttemptIds
       THEN /\ resp' = [op |-> "submit_attempt_item", user |-> user, attempt |-> attempt_id,
                        status |-> 404, body |-> [detail |-> "Not found."]]
            /\ UNCHANGED <<items, now>>
       ELSE IF submit_forbidden(user, attempt_id)
       THEN /\ resp' = [op |-> "submit_attempt_item", user |-> user, attempt |-> attempt_id,
                        status |-> 403, body |-> [detail |-> "Forbidden"]]
            /\ UNCHANGED <<items, now>>
       ELSE IF question_id \notin QuestionIds
       THEN /\ resp' = [op |-> "submit_attempt_item", user |-> user, attempt |-> attempt_id,
                        status |-> 404, body |-> [detail |-> "Not found."]]
            /\ UNCHANGED <<items, now>>
       ELSE LET q == QuestionRow(question_id)
                is_correct == evaluate_answer(q, answer)
            IN  /\ Len(items) < MaxItems
                /\ items' = Append(items,
                        [attempt |-> attempt_id, student |-> attempts[attempt_id],
                         question |-> question_id, is_correct |-> is_correct,
                         created_at |-> t])
                /\ now' = t
                /\ resp' = [op |-> "submit_attempt_item", user |-> user, attempt |-> attempt_id,
                            status |-> 201,
                            body |-> [is_correct |-> is_correct,
                                      attempt_item_id |-> Len(items) + 1]]
    /\ UNCHANGED <<attempts, views, viewlogs, texvars>>

(***************************************************************************)
(* Still-missed questions.                                                 *)
(***************************************************************************)
Range(seq) == { seq[i] : i \in DOMAIN seq }

\* AttemptItem.objects.filter(student_id=student_id): the ids of the rows
ItemsOfStudent(student_id) == { i \in DOMAIN items : items[i].student = student_id }

\* the sequences that list every member of S once
Perms(S) ==
    { f \in [1..Cardinality(S) -> S] : \A i, j \in DOMAIN f : i /= j => f[i] /= f[j] }

\* a slip: newest first, so that the row kept per question is the oldest
order_by_question_created_desc(S) ==
    { f \in Perms(S) :
        \A i, j \in DOMAIN f : i < j =>
            \/ items[f[i]].question < items[f[j]].question
            \/ /\ items[f[i]].question = items[f[j]].question
               /\ items[f[i]].created_at >= items[f[j]].created_at }

\* .order_by("question_id", "created_at"): every order the database may return;
\* rows that agree on both columns come in an order the database chooses
order_by_question_created(S) ==
    { f \in Perms(S) :
        \A i, j \in DOMAIN f : i < j =>
            \/ items[f[i]].question < items[f[j]].question
            \/ /\ items[f[i]].question = items[f[j]].question
               /\ items[f[i]].created_at <= items[f[j]].created_at }

\* OrderedDict: keys in order of first insertion, val the value of each key
EmptyDict == [keys |-> <<>>, val |-> <<>>]

\* d[k] = v
DictSet(d, k, v) ==
    [keys |-> IF k \in Range(d.keys) THEN d.keys ELSE Append(d.keys, k),
     val  |-> [x \in (DOMAIN d.val) \cup {k} |-> IF x = k THEN v ELSE d.val[x]]]

RECURSIVE latest_by_q(_, _)
\* for it in items: latest_by_q[it.question_id] = it   (rows is the query's order)
latest_by_q(rows, d) ==
    IF rows = <<>> THEN d
    ELSE latest_by_q(Tail(rows), DictSet(d, items[Head(rows)].question, Head(rows)))

\* [it.question for it in latest.values() if not it.is_correct], as question ids
wrong_of(latest) ==
    LET NotCorrect(k) == ~items[latest.val[k]].is_correct
    IN  SelectSeq(latest.keys, NotCorrect)

\* views._latest_wrong_questions, for the order rows the query returned
_latest_wrong_questions(rows) == wrong_of(latest_by_q(rows, EmptyDict))

\* the dict latest_incorrects appends for a question
QuestionJson(qid) ==
    [id |-> qid, type |-> QuestionRow(qid).type, stem_md |-> QuestionRow(qid).stem_md]

\* a slip: the negation dropped from the teacher test
view_forbidden_not_dropped(user, student_id) ==
    student_id /= user /\ user_is_teacher(user)

\* views.latest_incorrects and views.wrong_questions_pdf, their permission test
view_forbidden(user, student_id) ==
    student_id /= user /\ ~user_is_teacher(user)

\* views.latest_incorrects
latest_incorrects(user, student_id) ==
    /\ Idle
    /\ IF ~is_authenticated(user)
       THEN resp' = NotAuthenticated("latest_incorrects", user)
       ELSE IF view_forbidden(user, student_id)
       THEN resp' = [op |-> "latest_incorrects", user |-> user, student |-> student_id,
                     status |-> 403, body |-> [detail |-> "Forbidden"]]
       ELSE \E rows \in order_by_question_created(ItemsOfStudent(student_id)) :
              LET wrong == _latest_wrong_questions(rows)
              IN  resp' = [op |-> "latest_incorrects", user |-> user, student |-> student_id,
                           status |-> 200,
                           body |-> [count |-> Len(wrong),
                                     questions |-> [i \in DOMAIN wrong |-> QuestionJson(wrong[i])]]]
    /\ UNCHANGED dbvars

(***************************************************************************)
(* LaTeX to PDF (practice/views_tex.py).  A LaTeX text is a tuple of       *)
(* tokens; the token "<U+D800>" stands for a lone surrogate code point,    *)
(* which a Python str may hold (json.loads of "\ud800") and UTF-8 cannot   *)
(* encode.                                                                 *)
(***************************************************************************)
IsTexSpace(c) == c \in {" ", "\t", "\n", "\r", "\r\n"}

\* not tex or not tex.strip()
IsBlank(tex) == \A i \in DOMAIN tex : IsTexSpace(tex[i])

\* tex.replace("\r\n", "\n").replace("\r", "\n")
NormalizeNewlines(tex) ==
    [i \in DOMAIN tex |-> IF tex[i] \in {"\r\n", "\r"} THEN "\n" ELSE tex[i]]

\* STANDALONE_WRAPPER % tex
STANDALONE_WRAPPER(tex) ==
    <<"\\documentclass", "{standalone}", "\\begin{document}">> \o tex \o <<"\\end{document}">>

\* whether f.write(full_tex) to a file opened with encoding="utf-8" succeeds
Utf8Encodable(tex) == "<U+D800>" \notin Range(tex)

\* what subprocess.run of tectonic and the file system do in one call:
\*   "pdf"      exit status 0 and doc.pdf exists
\*   "nopdf"    exit status 0 and no doc.pdf
\*   "nonzero"  CalledProcessError (check=True)
\*   "timeout"  subprocess.TimeoutExpired
\*   "oserror"  the binary named by TECTONIC_BIN cannot be executed
RunOutcomes == {"pdf", "nopdf", "nonzero", "timeout", "oserror"}

Raise(exc, msg) == [kind |-> "raise", exc |-> exc, msg |-> msg]
Return(bytes) == [kind |-> "return", bytes |-> bytes]

\* the PDF tectonic makes of a document
TectonicPdf(full_tex) == [producer |-> "tectonic", tex |-> full_tex]

\* views_tex.compile_tex_bytes(tex), with TECTONIC_BIN = bin and the engine doing run
compile_tex_bytes(tex, bin, run) ==
    IF tex = <<>> \/ IsBlank(tex) THEN Raise("RuntimeError", "missing tex")
    ELSE IF bin = "None" THEN Raise("RuntimeError", "tectonic binary not found")
    ELSE LET t == NormalizeNewlines(tex)
             full_tex == IF "\\documentclass" \in Range(t) THEN t ELSE STANDALONE_WRAPPER(t)
         IN  IF ~Utf8Encodable(full_tex) THEN Raise("UnicodeEncodeError", "surrogates not allowed")
             ELSE IF run = "nonzero" THEN Raise("RuntimeError", "tectonic failed")
             ELSE IF run \in {"timeout", "oserror"} THEN Raise("RuntimeError", run)
             ELSE IF run = "nopdf" THEN Raise("RuntimeError", "PDF not produced")
             ELSE Return(TectonicPdf(full_tex))

(***************************************************************************)
(* The still-missed PDF (views.wrong_questions_pdf).                       *)
(***************************************************************************)
\* ctx["questions"]: the stems of the still-missed questions, in order
CtxQuestions(qs) == [i \in DOMAIN qs |-> QuestionRow(qs[i]).stem_md]

RECURSIVE Flatten(_)
Flatten(seqs) == IF seqs = <<>> THEN <<>> ELSE Head(seqs) \o Flatten(Tail(seqs))

\* render_to_string("print/missed_problems.tex", ctx) when it returns: a full
\* document (the template itself is not among the sources) holding the stems
RenderTemplate(ctx) == <<"\\documentclass", "\\begin{document}">> \o Flatten(ctx) \o <<"\\end{document}">>

\* what render_to_string and then the engine do in one request: the template
\* raises, or it renders and the engine does run
PdfOutcomes ==
    { [render |-> "TemplateDoesNotExist", run |-> "none"] }
        \cup { [render |-> "rendered", run |-> r] : r \in RunOutcomes }

\* views._make_pdf(student_id, questions): the ReportLab PDF, by what it draws
_make_pdf(student_id, questions) ==
    [producer |-> "reportlab", student_id |-> student_id,
     lines |-> IF questions = <<>> THEN << <<"No current still-missed questions.">> >>
               ELSE [i \in DOMAIN questions |-> <<"Q", i>> \o QuestionRow(questions[i]).stem_md]]

PdfResponse(pdf_bytes, student_id) ==
    [status |-> 200, content_type |-> "application/pdf",
     disposition |-> <<"attachment", "still_missed_student_", student_id, ".pdf">>,
     body |-> pdf_bytes]

ServerError(exc) ==
    [status |-> 500, content_type |-> "text/html", disposition |-> <<>>, body |-> exc]

\* a slip: except RuntimeError instead of except Exception
latex_or_fallback_runtime_only(result, student_id, qs) ==
    IF result.kind = "return" THEN PdfResponse(result.bytes, student_id)
    ELSE IF result.exc = "RuntimeError" THEN PdfResponse(_make_pdf(student_id, qs), student_id)
    ELSE ServerError(result.exc)

\* views.wrong_questions_pdf, from the try statement to the return:
\* result is what render_to_string followed by compile_tex_bytes did
latex_or_fallback(result, student_id, qs) ==
    IF result.kind = "return" THEN PdfResponse(result.bytes, student_id)
    ELSE PdfResponse(_make_pdf(student_id, qs), student_id)

\* views.wrong_questions_pdf
wrong_questions_pdf(user, student_id) ==
    /\ Idle
    /\ IF ~is_authenticated(user)
       THEN resp' = NotAuthenticated("wrong_questions_pdf", user)
       ELSE IF view_forbidden(user, student_id)
       THEN resp' = [op |-> "wrong_questions_pdf", user |-> user, student |-> student_id,
                     status |-> 403, body |-> [detail |-> "Forbidden"]]
       ELSE \E rows \in order_by_question_created(ItemsOfStudent(student_id)),
               env \in PdfOutcomes :
              LET qs == _latest_wrong_questions(rows)
                  result == IF env.render = "rendered"
                            THEN compile_tex_bytes(RenderTemplate(CtxQuestions(qs)), TECTONIC_BIN, env.run)
                            ELSE Raise(env.render, "print/missed_problems.tex")
                  r == latex_or_fallback(result, student_id, qs)
              IN  resp' = [op |-> "wrong_questions_pdf", user |-> user, student |-> student_id,
                           status |-> r.status, content_type |-> r.content_type,
                           disposition |-> r.disposition, body |-> r.body,
                           qs |-> qs, latex |-> result.kind]
    /\ UNCHANGED dbvars

(***************************************************************************)
(* Attempts, answers and the still-missed list.                            *)
(***************************************************************************)
NextItems ==
    \/ SendResponse
    \/ \E user \in AttemptCreators : create_attempt(user)
    \/ \E user \in Requesters, attempt_id \in AttemptIdArgs,
          question_id \in QuestionIdArgs, answer \in Answers, t \in ClockReadings :
            submit_attempt_item(user, attempt_id, question_id, answer, t)
    \/ \E user \in Requesters, student_id \in StudentIdArgs : latest_incorrects(user, student_id)
    \/ \E user \in Requesters, student_id \in StudentIdArgs : wrong_questions_pdf(user, student_id)

SpecItems == Init /\ [][NextItems]_vars

(***************************************************************************)
(* Properties of the attempt and answer handlers.                          *)
(***************************************************************************)
\* the teachers, read from the user table
TeacherRow(u) == is_staff(u) \/ "Teachers" \in groups(u)

\* C1: submit_attempt_item on an existing attempt creates an AttemptItem only
\* for the attempt's student or a teacher; every other signed-in requester is
\* answered 403 "Forbidden" and the AttemptItem rows stay as they were.
C1_SubmitOnlyOwnerOrTeacher ==
    [][ /\ items' /= items =>
            /\ resp'.op = "submit_attempt_item"
            /\ resp'.status = 201
            /\ is_authenticated(resp'.user)
            /\ resp'.attempt \in AttemptIds
            /\ attempts[resp'.attempt] = resp'.user \/ TeacherRow(resp'.user)
        /\ ( /\ resp' /= resp
             /\ resp'.op = "submit_attempt_item"
             /\ is_authenticated(resp'.user)
             /\ resp'.attempt \in AttemptIds
             /\ attempts[resp'.attempt] /= resp'.user
             /\ ~TeacherRow(resp'.user) ) =>
                /\ resp'.status = 403
                /\ resp'.body = [detail |-> "Forbidden"]
                /\ items' = items ]_vars

\* a student who is no teacher was refused on another user's attempt that
\* already holds an answer
C1_Witness ==
    /\ resp.op = "submit_attempt_item"
    /\ is_authenticated(resp.user)
    /\ resp.status = 403
    /\ ~TeacherRow(resp.user)
    /\ attempts[resp.attempt] /= resp.user
    /\ \E i \in DOMAIN items : items[i].attempt = resp.attempt

\* the rows of a student on a question with the greatest created_at
MostRecent(student_id, q) ==
    { i \in DOMAIN items :
        /\ items[i].student = student_id
        /\ items[i].question = q
        /\ \A j \in DOMAIN items :
              (items[j].student = student_id /\ items[j].question = q)
                  => items[j].created_at <= items[i].created_at }

ListedIds(questions) == [i \in DOMAIN questions |-> questions[i].id]

\* C2: latest_incorrects lists exactly the questions whose most recent
\* AttemptItem of the student (greatest created_at) is incorrect, each at most
\* once, never a question whose last answer was correct, and count is the
\* number of questions listed.  When several rows of a question share the
\* greatest created_at, the row the database orders last among them decides.
C2_LatestIncorrects ==
    (resp.op = "latest_incorrects" /\ resp.status = 200) =>
        LET ids == ListedIds(resp.body.questions)
            s == resp.student
        IN  /\ \A i, j \in DOMAIN ids : i /= j => ids[i] /= ids[j]
            /\ resp.body.count = Len(ids)
            /\ \A i \in DOMAIN ids : resp.body.questions[i] = QuestionJson(ids[i])
            /\ \A q \in QuestionIds :
                /\ q \in Range(ids) => \E i \in MostRecent(s, q) : ~items[i].is_correct
                /\ (MostRecent(s, q) /= {} /\ \A i \in MostRecent(s, q) : ~items[i].is_correct)
                        => q \in Range(ids)
                /\ (\A i \in MostRecent(s, q) : items[i].is_correct) => q \notin Range(ids)

\* a question answered correctly and, later, incorrectly is listed
C2_Witness ==
    /\ resp.op = "latest_incorrects"
    /\ resp.status = 200
    /\ resp.body.count = 1
    /\ \E i, j \in DOMAIN items :
          /\ items[i].student = resp.student /\ items[j].student = resp.student
          /\ items[i].question = resp.body.questions[1].id
          /\ items[j].question = resp.body.questions[1].id
          /\ items[i].is_correct /\ ~items[j].is_correct
          /\ items[i].created_at < items[j].created_at

\* C3: the still-missed questions of a student, as the JSON list and as the
\* PDF, go only to the student or a teacher; every other requester is answered
\* 403 and the response carries no question data.
C3_StillMissedDisclosure ==
    (resp.op \in {"latest_incorrects", "wrong_questions_pdf"}) =>
        IF ~is_authenticated(resp.user)
        THEN resp = NotAuthenticated(resp.op, resp.user)
        ELSE IF resp.student /= resp.user /\ ~TeacherRow(resp.user)
        THEN resp = [op |-> resp.op, user |-> resp.user, student |-> resp.student,
                     status |-> 403, body |-> [detail |-> "Forbidden"]]
        ELSE resp.status = 200

\* a student who is no teacher asked for another student's list while that
\* student has a still-missed question
C3_Witness ==
    /\ resp.op \in {"latest_incorrects", "wrong_questions_pdf"}
    /\ is_authenticated(resp.user)
    /\ resp.student /= resp.user
    /\ ~TeacherRow(resp.user)
    /\ resp.status = 403
    /\ \E q \in QuestionIds :
          /\ MostRecent(resp.student, q) /= {}
          /\ \A i \in MostRecent(resp.student, q) : ~items[i].is_correct

\* C10: wrong_questions_pdf answers every authorised requester with an
\* application/pdf attachment; when rendering the template or compiling raises,
\* the body is the ReportLab PDF of the same still-missed list.
C10_PdfAlwaysAnswered ==
    ( /\ resp.op = "wrong_questions_pdf"
      /\ is_authenticated(resp.user)
      /\ resp.student = resp.user \/ TeacherRow(resp.user) ) =>
        /\ resp.status = 200
        /\ resp.content_type = "application/pdf"
        /\ resp.disposition[1] = "attachment"
        /\ \E rows \in Perms(ItemsOfStudent(resp.student)) :
              resp.qs = _latest_wrong_questions(rows)
        /\ resp.latex = "raise" =>
              /\ resp.body.producer = "reportlab"
              /\ resp.body.student_id = resp.student
              /\ Len(resp.body.lines) = IF resp.qs = <<>> THEN 1 ELSE Len(resp.qs)
              /\ \A i \in DOMAIN resp.qs :
                    resp.body.lines[i] = <<"Q", i>> \o QuestionRow(resp.qs[i]).stem_md
        /\ resp.latex = "return" => resp.body.producer = "tectonic"

\* the LaTeX route raised and the ReportLab PDF of a non-empty list was sent
C10_Witness ==
    /\ resp.op = "wrong_questions_pdf"
    /\ resp.status = 200
    /\ resp.latex = "raise"
    /\ resp.body.producer = "reportlab"
    /\ resp.qs /= <<>>

(***************************************************************************)
(* View-time logging: views.log_attempt_view, views.attempt_view_log,      *)
(* api.AttemptViewLogAPI.post, and the URL table that routes to them.      *)
(***************************************************************************)
\* the values of "question_id" and of "view_ms" in the bodies clients send
QidValues == {JMissing, JInt(1), JInt(3), JStr(<<"x">>)}
MsValues == {JMissing, JNull, JInt(-2), JInt(2), JStr(<<"-", "7">>), JStr(<<"x">>)}

\* request bodies: text that is no JSON object, or an object with the two keys,
\* one of them varied at a time
ViewBodies ==
    { [json |-> "invalid", question_id |-> JMissing, view_ms |-> JMissing] }
        \cup { [json |-> "object", question_id |-> q, view_ms |-> JInt(2)] : q \in QidValues }
        \cup { [json |-> "object", question_id |-> JInt(1), view_ms |-> m] : m \in MsValues }

Methods == {"GET", "POST"}
ViewRequesters == {Anonymous, 1, 2}

\* the rows of both view tables are counted against one bound
ViewRowsLeft == Len(views) + Len(viewlogs) < MaxViews

ViewResponse(op, via, user, attempt_id, body, status, answer, created) ==
    [op |-> op, via |-> via, user |-> user, attempt |-> attempt_id,
     view_ms |-> IF created THEN body.view_ms ELSE JMissing,
     status |-> status, body |-> answer, created |-> created]

\* a slip: the clamp forgotten
view_ms_unclamped(n) == n

\* max(0, int(...)) of the three handlers, after int() succeeded
view_ms_stored(n) == Max0(n)

\* views.log_attempt_view, reached through via
log_attempt_view(via, user, method, attempt_id, body) ==
    LET R(status, answer, created) ==
            ViewResponse("log_attempt_view", via, user, attempt_id, body, status, answer, created)
        question_id == PyInt(OrElse(Get(body.question_id), JInt(0)))
        view_ms == PyInt(OrElse(Get(body.view_ms), JInt(0)))
    IN  /\ Idle
        /\ IF method /= "POST"
           THEN resp' = R(405, [detail |-> "Method Not Allowed"], FALSE) /\ UNCHANGED views
           ELSE IF body.json = "invalid" \/ ~question_id.ok \/ ~view_ms.ok
           THEN resp' = R(400, [ok |-> FALSE, error |-> "bad-json"], FALSE) /\ UNCHANGED views
           ELSE IF attempt_id \notin AttemptIds \/ question_id.v \notin QuestionIds
           THEN resp' = R(200, [ok |-> TRUE, saved |-> FALSE], FALSE) /\ UNCHANGED views
           ELSE /\ ViewRowsLeft
                /\ views' = Append(views, [attempt |-> attempt_id, question |-> question_id.v,
                                           view_ms |-> view_ms_stored(view_ms.v)])
                /\ resp' = R(200, [ok |-> TRUE, saved |-> TRUE], TRUE)
        /\ UNCHANGED <<attempts, items, viewlogs, now, texvars>>

\* views.attempt_view_log, reached through via
attempt_view_log(via, user, method, attempt_id, body) ==
    LET R(status, answer, created) ==
            ViewResponse("attempt_view_log", via, user, attempt_id, body, status, answer, created)
        qid == PyInt(Get(body.question_id))
        ms == PyInt(GetDefault(body.view_ms, JInt(0)))
    IN  /\ Idle
        /\ IF ~is_authenticated(user)
           THEN resp' = R(302, [location |-> "login"], FALSE) /\ UNCHANGED views
           ELSE IF method /= "POST"
           THEN resp' = R(405, [ok |-> FALSE, error |-> "POST only"], FALSE) /\ UNCHANGED views
           ELSE IF body.json = "invalid" \/ ~qid.ok \/ ~ms.ok
           THEN resp' = R(400, [detail |-> "bad json"], FALSE) /\ UNCHANGED views
           ELSE IF attempt_id \notin AttemptIds \/ attempts[attempt_id] /= user
           THEN resp' = R(404, [ok |-> FALSE, error |-> "attempt not found"], FALSE)
                /\ UNCHANGED views
           ELSE IF qid.v \notin QuestionIds
           THEN \* question_id is a foreign key: the INSERT raises IntegrityError
                resp' = R(500, [detail |-> "IntegrityError"], FALSE) /\ UNCHANGED views
           ELSE /\ ViewRowsLeft
                /\ views' = Append(views, [attempt |-> attempt_id, question |-> qid.v,
                                           view_ms |-> view_ms_stored(ms.v)])
                /\ resp' = R(200, [ok |-> TRUE, saved |-> TRUE], TRUE)
        /\ UNCHANGED <<attempts, items, viewlogs, now, texvars>>

\* api.AttemptViewLogAPI.post, reached through via
AttemptViewLogAPI_post(via, user, attempt_id, body) ==
    LET R(status, answer, created) ==
            ViewResponse("AttemptViewLogAPI.post", via, user, attempt_id, body, status, answer, created)
        qid == Get(body.question_id)
        ms == Get(body.view_ms)
    IN  /\ Idle
        /\ IF body.json = "invalid"
           THEN resp' = R(400, [detail |-> "JSON parse error"], FALSE) /\ UNCHANGED viewlogs
           ELSE IF attempt_id \notin AttemptIds
           THEN resp' = R(404, [error |-> "attempt not found"], FALSE) /\ UNCHANGED viewlogs
           ELSE IF qid.t = "null" \/ ms.t = "null"
           THEN resp' = R(400, [error |-> "question_id and view_ms required"], FALSE)
                /\ UNCHANGED viewlogs
           ELSE IF ~PyInt(qid).ok
           THEN \* Question.objects.get(id="x") raises ValueError, which post does not catch
                resp' = R(500, [detail |-> "ValueError"], FALSE) /\ UNCHANGED viewlogs
           ELSE IF PyInt(qid).v \notin QuestionIds
           THEN resp' = R(404, [error |-> "question not found"], FALSE) /\ UNCHANGED viewlogs
           ELSE IF ~PyInt(ms).ok
           THEN resp' = R(400, [error |-> "view_ms must be an integer"], FALSE)
                /\ UNCHANGED viewlogs
           ELSE /\ ViewRowsLeft
                /\ viewlogs' = Append(viewlogs, [attempt |-> attempt_id, question |-> PyInt(qid).v,
                                                 view_ms |-> view_ms_stored(PyInt(ms).v)])
                /\ resp' = R(201, [ok |-> TRUE], TRUE)
        /\ UNCHANGED <<attempts, items, views, now, texvars>>

\* practice/urls.py: urlpatterns, in order
urlpatterns ==
    << [route |-> "practice/", view |-> "practice_page"],
       [route |-> "dashboard/", view |-> "student_dashboard"],
       [route |-> "teacher/", view |-> "teacher_page"],
       [route |-> "accounts/register/", view |-> "register"],
       [route |-> "statistics/", view |-> "student_stats_page"],
       [route |-> "api/ping", view |-> "ping"],
       [route |-> "api/questions/", view |-> "get_questions"],
       [route |-> "api/attempts/", view |-> "create_attempt"],
       [route |-> "api/attempts/<int:attempt_id>/items/", view |-> "submit_attempt_item"],
       [route |-> "api/students/<int:student_id>/wrong-questions/", view |-> "latest_incorrects"],
       [route |-> "api/students/<int:student_id>/wrong-questions/pdf", view |-> "wrong_questions_pdf"],
       [route |-> "api/attempts/<int:attempt_id>/views/", view |-> "log_attempt_view"],
       [route |-> "practice/tex/pdf/", view |-> "tex_pdf"],
       [route |-> "api/stats/me/", view |-> "student_stats_api"],
       [route |-> "api/stats/me/", view |-> "stats_me"],
       [route |-> "api/attempts/<int:attempt_id>/views/", view |-> "attempt_view_log"] >>

\* the URL resolver: the view of the first pattern that matches the path
Resolve(route) ==
    LET matching == { i \in DOMAIN urlpatterns : urlpatterns[i].route = route }
        first == CHOOSE i \in matching : \A j \in matching : i <= j
    IN  urlpatterns[first].view

ViewsRoute == "api/attempts/<int:attempt_id>/views/"

\* a request to api/attempts/<attempt_id>/views/
request_attempt_views(user, method, attempt_id, body) ==
    IF Resolve(ViewsRoute) = "log_attempt_view"
    THEN log_attempt_view(ViewsRoute, user, method, attempt_id, body)
    ELSE attempt_view_log(ViewsRoute, user, method, attempt_id, body)

\* the handlers as view functions, whatever URL table routes to them
ViewFunction == "view function"

NextViews ==
    \/ SendResponse
    \/ \E user \in AttemptCreators : create_attempt(user)
    \/ \E user \in ViewRequesters, method \in Methods, attempt_id \in AttemptIdArgs,
          body \in ViewBodies : request_attempt_views(user, method, attempt_id, body)
    \/ \E user \in ViewRequesters, method \in Methods, attempt_id \in AttemptIdArgs,
          body \in ViewBodies : attempt_view_log(ViewFunction, user, method, attempt_id, body)
    \/ \E user \in ViewRequesters, attempt_id \in AttemptIdArgs, body \in ViewBodies :
          AttemptViewLogAPI_post(ViewFunction, user, attempt_id, body)

SpecViews == Init /\ [][NextViews]_vars

\* C4: a POST to api/attempts/<attempt_id>/views/ creates an AttemptView row
\* only for a signed-in requester who owns the attempt; for an attempt of
\* another user it answers 404 "attempt not found" and creates no row.
C4_ViewsUrlOwnerOnly ==
    (resp.op /= "none" /\ resp.op \in {"log_attempt_view", "attempt_view_log"}
        /\ resp.via = ViewsRoute) =>
        /\ resp.created =>
              /\ is_authenticated(resp.user)
              /\ resp.attempt \in AttemptIds
              /\ attempts[resp.attempt] = resp.user
        /\ ( /\ is_authenticated(resp.user)
             /\ resp.attempt \in AttemptIds
             /\ attempts[resp.attempt] /= resp.user
             /\ resp.status \notin {400, 405} ) =>
                /\ resp.status = 404
                /\ resp.body = [ok |-> FALSE, error |-> "attempt not found"]
                /\ ~resp.created

\* the integer a request body gives for view_ms, when it gives one
SentMs(j) == IF j.t = "int" THEN j.v ELSE 0 - 7

\* C5: every row stored by AttemptViewLogAPI.post, log_attempt_view and
\* attempt_view_log has view_ms >= 0, and a negative view_ms is stored as 0.
C5_ViewMsNonNegative ==
    /\ \A i \in DOMAIN views : views[i].view_ms >= 0
    /\ \A i \in DOMAIN viewlogs : viewlogs[i].view_ms >= 0
    /\ ( /\ resp.op \in {"log_attempt_view", "attempt_view_log", "AttemptViewLogAPI.post"}
         /\ resp.created
         /\ resp.view_ms \in {JInt(-2), JInt(2), JStr(<<"-", "7">>)} ) =>
            LET rows == IF resp.op = "AttemptViewLogAPI.post" THEN viewlogs ELSE views
                sent == SentMs(resp.view_ms)
            IN  rows[Len(rows)].view_ms = IF sent < 0 THEN 0 ELSE sent

\* a row was just stored as 0 for the view_ms -2 a client sent, and the
\* other table holds a row too
C5_Witness ==
    /\ resp.op = "AttemptViewLogAPI.post"
    /\ resp.created
    /\ resp.view_ms = JInt(-2)
    /\ viewlogs[Len(viewlogs)].view_ms = 0
    /\ Len(views) >= 1

(***************************************************************************)
(* views_tex.tex_pdf: TeX in, PDF out.                                     *)
(***************************************************************************)
\* LaTeX texts clients send
TexTexts ==
    { <<>>, <<" ">>, <<"x", "^", "2">>, <<"x", "\r\n">>, <<"\\documentclass", "x">>,
      <<"<U+D800>">> }

\* request.GET carries text decoded from the query string: no lone surrogate
GetParams == { JMissing } \cup { JStr(t) : t \in { x \in TexTexts : Utf8Encodable(x) } }

\* POST bodies: text that is no JSON object, or an object whose "tex" is v
PostBodies ==
    { [json |-> "invalid", tex |-> JMissing] }
        \cup { [json |-> "object", tex |-> v] :
                  v \in {JMissing, JNull, JInt(5)} \cup { JStr(t) : t \in TexTexts } }

TexPdfRequests ==
    { [method |-> "PUT", json |-> "none", tex |-> JMissing] }
        \cup { [method |-> "GET", json |-> "none", tex |-> v] : v \in GetParams }
        \cup { [method |-> "POST", json |-> b.json, tex |-> b.tex] : b \in PostBodies }

NotCalled == [kind |-> "not called"]

\* the response of tex_pdf to what compile_tex_bytes did
TexPdfAnswer(result) ==
    IF result.kind = "return"
        THEN [status |-> 200, content_type |-> "application/pdf", body |-> result.bytes]
    ELSE IF result.exc = "RuntimeError"
        THEN [status |-> 400, content_type |-> "text/plain", body |-> result.msg]
    ELSE [status |-> 500, content_type |-> "text/html", body |-> result.exc]

\* views_tex.tex_pdf; run is what the engine does if it is started
tex_pdf(request, run) ==
    LET R(status, content_type, body, result) ==
            [op |-> "tex_pdf", request |-> request, run |-> run, status |-> status,
             content_type |-> content_type, body |-> body, result |-> result]
        \* .get("tex", "") or ""
        tex == OrElse(GetDefault(request.tex, JStr(<<>>)), JStr(<<>>))
    IN  /\ Idle
        /\ IF request.method \notin {"GET", "POST"}
           THEN resp' = R(405, "text/html", "Method Not Allowed", NotCalled)
           ELSE IF request.method = "POST" /\ request.json = "invalid"
           THEN resp' = R(400, "text/html", "invalid json", NotCalled)
           ELSE IF tex.t /= "str"
           THEN \* tex.strip() on a number raises AttributeError
                resp' = R(500, "text/html", "AttributeError", NotCalled)
           ELSE IF IsBlank(tex.s)
           THEN resp' = R(400, "text/html", "missing tex", NotCalled)
           ELSE LET result == compile_tex_bytes(tex.s, TECTONIC_BIN, run)
                    a == TexPdfAnswer(result)
                IN  resp' = R(a.status, a.content_type, a.body, result)
        /\ UNCHANGED dbvars

NextTexPdf ==
    \/ SendResponse
    \/ \E request \in TexPdfRequests, run \in RunOutcomes : tex_pdf(request, run)

SpecTexPdf == Init /\ [][NextTexPdf]_vars

\* C9: compile_tex_bytes returns the bytes of the PDF the engine produced or
\* raises RuntimeError, and tex_pdf answers 400 whenever it raised and sends an
\* application/pdf body only when compilation succeeded.
C9_CompileOrRuntimeError ==
    (resp.op = "tex_pdf" /\ resp.result /= NotCalled) =>
        /\ \/ resp.result.kind = "return" /\ resp.result.bytes.producer = "tectonic"
           \/ resp.result.kind = "raise" /\ resp.result.exc = "RuntimeError"
        /\ resp.result.kind = "raise" => resp.status = 400
        /\ resp.content_type = "application/pdf" <=> resp.result.kind = "return"

\* C9, the failures the claim lists: a missing binary, a non-zero exit, a
\* timeout and a missing output PDF raise RuntimeError and are answered 400;
\* empty input is answered 400; a PDF body is sent only for a PDF the engine made.
C9_ListedFailures ==
    (resp.op = "tex_pdf" /\ resp.request.method \in {"GET", "POST"}) =>
        /\ ( /\ resp.result /= NotCalled
             /\ Utf8Encodable(resp.request.tex.s)
             /\ TECTONIC_BIN = "None" \/ resp.run /= "pdf" ) =>
                /\ resp.result.kind = "raise"
                /\ resp.result.exc = "RuntimeError"
                /\ resp.status = 400
        /\ (resp.request.json /= "invalid" /\ resp.request.tex \in {JMissing, JNull, JStr(<<>>), JStr(<<" ">>)})
                => resp.status = 400
        /\ resp.content_type = "application/pdf" =>
                /\ resp.result.kind = "return"
                /\ resp.run = "pdf"
                /\ resp.body.producer = "tectonic"

\* a text with a lone surrogate reached compile_tex_bytes while tectonic is installed
C9_SurrogateReached ==
    /\ resp.op = "tex_pdf"
    /\ resp.result /= NotCalled
    /\ resp.result.kind = "raise"
    /\ resp.result.exc = "UnicodeEncodeError"
    /\ resp.status = 500

(***************************************************************************)
(* views.tex_svg: a LaTeX snippet rendered to SVG or PNG and cached in     *)
(* static/texcache.  A request is handled in steps, and the steps of the   *)
(* workers interleave.                                                     *)
(***************************************************************************)
\* the requests that go on to compile
MaxCompiles == 2

\* the snippets clients ask for
SnippetX2 == <<"x", "^", "2">>
SnippetInputNoBrace == <<"\\input", "a">>
SnippetInputBraced == <<"\\input", "{", "a", "}">>
SnippetInputUpper == <<"\\INPUT", " ", "{", "a", "}">>
SnippetWrite == <<"\\write", "1">>
SnippetOpenout == <<"\\openout", "1">>
SnippetShellesc == <<"\\usepackage", "[", "x", "]", "{", "shellesc", "}">>

Snippets ==
    <<SnippetX2, SnippetInputNoBrace, SnippetInputBraced, SnippetInputUpper,
      SnippetWrite, SnippetOpenout, SnippetShellesc>>

\* hashlib.sha1(tex.encode("utf-8")).hexdigest(): one digest per text
sha1(tex) == <<"sha1", CHOOSE i \in DOMAIN Snippets : Snippets[i] = tex>>

\* TEXCACHE_DIR / f"{h}.svg"
CachePath(h, suffix) == [stem |-> h, suffix |-> suffix]

\* Path.with_suffix
with_suffix(path, suffix) == [path EXCEPT !.suffix = suffix]

\* re.I, on the control words of the model's snippets
IgnoreCase(tok) ==
    CASE tok = "\\INPUT" -> "\\input"
      [] tok = "\\WRITE" -> "\\write"
      [] OTHER           -> tok

\* \s
IsReSpace(tok) == tok \in {" ", "\t", "\n", "\r"}

\* _FORBID_RE matches at position i of tex; fold is the re.I flag
_FORBID_RE_match(tex, i, fold) ==
    LET n == Len(tex)
        tok(j) == IF fold THEN IgnoreCase(tex[j]) ELSE tex[j]
    IN  \/ tok(i) \in {"\\write", "\\openout"}
        \/ /\ tok(i) = "\\input"
           \* \s*\{[^}]*\}
           /\ \E j \in (i + 1)..n :
                /\ \A k \in (i + 1)..(j - 1) : IsReSpace(tex[k])
                /\ tex[j] = "{"
                /\ \E k \in (j + 1)..n : tex[k] = "}"
        \/ /\ tok(i) = "\\usepackage"
           \* \[.*?\]\{shellesc\}
           /\ i + 1 <= n /\ tex[i + 1] = "["
           /\ \E k \in (i + 2)..(n - 3) :
                /\ \A m \in (i + 2)..(k - 1) : tex[m] /= "\n"
                /\ tex[k] = "]"
                /\ tex[k + 1] = "{"
                /\ tok(k + 2) = "shellesc"
                /\ tex[k + 3] = "}"

\* a slip: the pattern compiled without re.I
_FORBID_RE_search_case_sensitive(tex) == \E i \in DOMAIN tex : _FORBID_RE_match(tex, i, FALSE)

\* _FORBID_RE.search(tex)
_FORBID_RE_search(tex) == \E i \in DOMAIN tex : _FORBID_RE_match(tex, i, TRUE)

\* a slip: the PNG file is looked for before the SVG file
cache_lookup_png_first(h) ==
    IF CachePath(h, ".png") \in DOMAIN files THEN ".png"
    ELSE IF CachePath(h, ".svg") \in DOMAIN files THEN ".svg"
    ELSE "miss"

\* svg_path.exists(), then png_path.exists()
cache_lookup(h) ==
    IF CachePath(h, ".svg") \in DOMAIN files THEN ".svg"
    ELSE IF CachePath(h, ".png") \in DOMAIN files THEN ".png"
    ELSE "miss"

ContentType(suffix) == IF suffix = ".svg" THEN "image/svg+xml" ELSE "image/png"

\* the inodes a directory entry or an open file still refers to
LiveInodes(f, fds) == ({ f[p] : p \in DOMAIN f } \cup { fds[w] : w \in Workers }) \ {0}

\* the file system frees the inodes nothing refers to
Collect(f, d, fds) == [i \in (DOMAIN d) \cap LiveInodes(f, fds) |-> d[i]]

\* the inode number a new file gets
NewInode == CHOOSE i \in 1..(Cardinality(DOMAIN data) + 1) : i \notin DOMAIN data

\* GET requests: the tex and qid parameters
SvgParams ==
    { [tex |-> JMissing, qid |-> JMissing],
      [tex |-> JStr(<<>>), qid |-> JStr(<<"x">>)],
      [tex |-> JMissing, qid |-> JStr(<<"7">>)],
      [tex |-> JMissing, qid |-> JStr(<<"1">>)],
      [tex |-> JMissing, qid |-> JStr(<<"2">>)],
      [tex |-> JStr(SnippetX2), qid |-> JMissing],
      [tex |-> JStr(SnippetInputNoBrace), qid |-> JStr(<<"2">>)],
      [tex |-> JStr(SnippetInputUpper), qid |-> JMissing],
      [tex |-> JStr(SnippetWrite), qid |-> JMissing],
      [tex |-> JStr(SnippetOpenout), qid |-> JStr(<<"1">>)],
      [tex |-> JStr(SnippetShellesc), qid |-> JMissing] }

SvgRequests ==
    { [method |-> "POST", tex |-> JMissing, qid |-> JMissing] }
        \cup { [method |-> "GET", tex |-> r.tex, qid |-> r.qid] : r \in SvgParams }

\* what _tectonic_path() finds when a request asks: a binary, or None
ExeValues == {"None", "bin/tectonic"}

\* modern CLI, then legacy CLI: one of them exits 0, both fail, or a run times out
TectonicOutcomes == {"ok", "failed", "timeout"}

\* pdftocairo and pdftoppm: an SVG, else a PNG, else neither; or pdftocairo
\* is not installed and subprocess.run raises FileNotFoundError
ConvertOutcomes == {"svg", "png", "neither", "oserror"}

\* the answer of the part of tex_svg that runs before anything is compiled
LookupAnswer(request, exe, tex, status, content_type, body, source, path, content) ==
    [op |-> "tex_svg", stage |-> "lookup", request |-> request, exe |-> exe, tex |-> tex,
     status |-> status, content_type |-> content_type, body |-> body,
     source |-> source, path |-> path, content |-> content]

\* the answer of the part of tex_svg that compiles, converts and installs
InstallAnswer(tex, status, content_type, body, source, path, content) ==
    [op |-> "tex_svg", stage |-> "install", tex |-> tex,
     status |-> status, content_type |-> content_type, body |-> body,
     source |-> source, path |-> path, content |-> content]

NoPath == CachePath("none", "none")

\* the worker is done with its request
Finish(w) ==
    /\ svg_pc' = [svg_pc EXCEPT ![w] = "idle"]
    /\ svg_tex' = [svg_tex EXCEPT ![w] = NoTex]
    /\ svg_ext' = [svg_ext EXCEPT ![w] = "none"]

othervars == <<attempts, items, views, viewlogs, now, TECTONIC_BIN, callvars, uservars, walkvars>>

\* tex_svg up to the start of the compilation (views.py 571-606): worker w
\* takes the request while _tectonic_path() would find exe
tex_svg(w, request, exe) ==
    LET tex0 == Get(request.tex)
        qid == Get(request.qid)
        use_qid == ~Truthy(tex0) /\ Truthy(qid)
        pk == PyInt(qid)
        bad_qid == use_qid /\ (~pk.ok \/ pk.v \notin QuestionIds)
        tex == IF use_qid /\ ~bad_qid THEN QuestionRow(pk.v).stem_md
               ELSE IF Truthy(tex0) THEN tex0.s
               ELSE NoTex
        h == sha1(tex)
        hit == cache_lookup(h)
        path == CachePath(h, hit)
        Reject(t, status, content_type, body) ==
            /\ resp' = LookupAnswer(request, exe, t, status, content_type, body,
                                    "none", NoPath, "none")
            /\ UNCHANGED svgvars
    IN  /\ Idle
        /\ svg_pc[w] = "idle"
        /\ IF request.method /= "GET"
           THEN Reject(NoTex, 405, "text/html", "Method Not Allowed")
           ELSE IF bad_qid
           THEN Reject(NoTex, 400, "text/html", "bad qid")
           ELSE IF tex = NoTex
           THEN Reject(NoTex, 400, "text/html", "missing tex")
           ELSE IF _FORBID_RE_search(tex)
           THEN Reject(tex, 400, "text/html", "forbidden_tex")
           ELSE IF hit /= "miss"
           THEN \* FileResponse(open(path, "rb"))
                /\ resp' = LookupAnswer(request, exe, tex, 200, ContentType(hit), "file",
                                        "cache", path, data[files[path]])
                /\ UNCHANGED svgvars
           ELSE IF exe = "None"
           THEN Reject(tex, 500, "text/html", "tectonic_not_found")
           ELSE /\ started < MaxCompiles
                /\ started' = started + 1
                /\ svg_pc' = [svg_pc EXCEPT ![w] = "tectonic"]
                /\ svg_tex' = [svg_tex EXCEPT ![w] = tex]
                /\ UNCHANGED <<resp, files, data, svg_ext, svg_fd>>
        /\ UNCHANGED othervars

\* views.py 608-626: doc.tex is written and tectonic runs on it
run_tectonic(w, outcome) ==
    /\ Idle
    /\ svg_pc[w] = "tectonic"
    /\ IF outcome = "ok"
       THEN /\ svg_pc' = [svg_pc EXCEPT ![w] = "convert"]
            /\ UNCHANGED <<resp, svg_tex, svg_ext>>
       ELSE /\ resp' = IF outcome = "failed"
                       THEN InstallAnswer(svg_tex[w], 422, "text/plain", "tectonic_failed",
                                          "none", NoPath, "none")
                       ELSE InstallAnswer(svg_tex[w], 504, "text/plain", "latex_timeout",
                                          "none", NoPath, "none")
            /\ Finish(w)
    /\ UNCHANGED <<files, data, svg_fd, started, othervars>>

\* views.py 628-634 and 644-650, 659: pdftocairo, and pdftoppm when it fails
run_converters(w, outcome) ==
    /\ Idle
    /\ svg_pc[w] = "convert"
    /\ IF outcome \in {"svg", "png"}
       THEN /\ svg_pc' = [svg_pc EXCEPT ![w] = "open"]
            /\ svg_ext' = [svg_ext EXCEPT ![w] = IF outcome = "svg" THEN ".svg" ELSE ".png"]
            /\ UNCHANGED <<resp, svg_tex>>
       ELSE /\ resp' = IF outcome = "neither"
                       THEN InstallAnswer(svg_tex[w], 500, "text/plain", "convert_failed",
                                          "none", NoPath, "none")
                       ELSE InstallAnswer(svg_tex[w], 500, "text/html", "FileNotFoundError",
                                          "none", NoPath, "none")
            /\ Finish(w)
    /\ UNCHANGED <<files, data, svg_fd, started, othervars>>

\* the cache path and the temporary path of the file worker w installs
OutPath(w) == CachePath(sha1(svg_tex[w]), svg_ext[w])
TmpOut(w) == with_suffix(OutPath(w), IF svg_ext[w] = ".svg" THEN ".svg.tmp" ELSE ".png.tmp")

\* tmp_out.write_bytes(...), its open(tmp_out, "wb"): the file is created, or
\* the file of that name is truncated (views.py 638, 653)
tmp_out_open(w) ==
    /\ Idle
    /\ svg_pc[w] = "open"
    /\ IF TmpOut(w) \in DOMAIN files
       THEN /\ svg_fd' = [svg_fd EXCEPT ![w] = files[TmpOut(w)]]
            /\ data' = [data EXCEPT ![files[TmpOut(w)]] = "empty"]
            /\ UNCHANGED files
       ELSE /\ svg_fd' = [svg_fd EXCEPT ![w] = NewInode]
            /\ files' = [p \in DOMAIN files \cup {TmpOut(w)} |->
                            IF p = TmpOut(w) THEN NewInode ELSE files[p]]
            /\ data' = [i \in DOMAIN data \cup {NewInode} |->
                            IF i = NewInode THEN "empty" ELSE data[i]]
    /\ svg_pc' = [svg_pc EXCEPT ![w] = "write"]
    /\ UNCHANGED <<resp, svg_tex, svg_ext, started, othervars>>

\* tmp_out.write_bytes(...), its write and close (views.py 638, 653)
tmp_out_write(w) ==
    /\ Idle
    /\ svg_pc[w] = "write"
    /\ svg_fd' = [svg_fd EXCEPT ![w] = 0]
    /\ data' = Collect(files, [data EXCEPT ![svg_fd[w]] = "complete"], svg_fd')
    /\ svg_pc' = [svg_pc EXCEPT ![w] = "replace"]
    /\ UNCHANGED <<resp, files, svg_tex, svg_ext, started, othervars>>

\* tmp_out.replace(path): rename(2), FileNotFoundError when tmp_out is gone
\* (views.py 639, 654)
tmp_out_replace(w) ==
    /\ Idle
    /\ svg_pc[w] = "replace"
    /\ IF TmpOut(w) \in DOMAIN files
       THEN /\ files' = [p \in (DOMAIN files \ {TmpOut(w)}) \cup {OutPath(w)} |->
                            IF p = OutPath(w) THEN files[TmpOut(w)] ELSE files[p]]
            /\ data' = Collect(files', data, svg_fd)
            /\ svg_pc' = [svg_pc EXCEPT ![w] = "serve"]
            /\ UNCHANGED <<resp, svg_tex, svg_ext>>
       ELSE /\ resp' = InstallAnswer(svg_tex[w], 500, "text/html", "FileNotFoundError",
                                     "none", NoPath, "none")
            /\ Finish(w)
            /\ UNCHANGED <<files, data>>
    /\ UNCHANGED <<svg_fd, started, othervars>>

\* FileResponse(open(path, "rb")) of the file just installed (views.py 640, 655)
serve_installed(w) ==
    /\ Idle
    /\ svg_pc[w] = "serve"
    /\ resp' = InstallAnswer(svg_tex[w], 200, ContentType(svg_ext[w]), "file",
                             "fresh", OutPath(w), data[files[OutPath(w)]])
    /\ Finish(w)
    /\ UNCHANGED <<files, data, svg_fd, started, othervars>>

\* static/texcache when the server starts: empty, or holding the file an
\* earlier deployment, one without the forbidden-pattern check, left for a snippet
CachesAtStart ==
    { [files |-> NoFiles, data |-> NoFiles],
      [files |-> [p \in {CachePath(sha1(SnippetInputBraced), ".svg")} |-> 1],
       data |-> [i \in {1} |-> "complete"]] }

InitSvg ==
    /\ InitDb
    /\ InitTex
    /\ InitWorkers
    /\ InitCalls
    /\ InitUsers
    /\ InitWalk
    /\ \E c \in CachesAtStart : files = c.files /\ data = c.data

NextSvg ==
    \/ SendResponse
    \/ \E w \in Workers, request \in SvgRequests, exe \in ExeValues : tex_svg(w, request, exe)
    \/ \E w \in Workers, outcome \in TectonicOutcomes : run_tectonic(w, outcome)
    \/ \E w \in Workers, outcome \in ConvertOutcomes : run_converters(w, outcome)
    \/ \E w \in Workers : tmp_out_open(w)
    \/ \E w \in Workers : tmp_out_write(w)
    \/ \E w \in Workers : tmp_out_replace(w)
    \/ \E w \in Workers : serve_installed(w)

SpecSvg == InitSvg /\ [][NextSvg]_vars

\* the snippets of the model tex_svg goes on to render
RenderedSnippets == {SnippetX2, SnippetInputNoBrace}

\* the snippets of the model the forbidden pattern matches
ForbiddenSnippets ==
    {SnippetInputBraced, SnippetInputUpper, SnippetWrite, SnippetOpenout, SnippetShellesc}

C7_NoPartialCacheFile ==
    /\ \A p \in DOMAIN files : p.suffix \in {".svg", ".png"} => data[files[p]] = "complete"
    /\ (resp.op = "tex_svg" /\ resp.status = 200) => resp.content = "complete"

\* C8: a snippet the forbidden pattern matches is never compiled and never
\* served; the request that carries it, in tex or through qid, is answered
\* 400 forbidden_tex and changes nothing in the cache.
C8_ForbiddenRejected ==
    [][ /\ \A w \in Workers : svg_pc'[w] /= "idle" => svg_tex'[w] \notin ForbiddenSnippets
        /\ (resp'.op = "tex_svg" /\ resp'.tex \in ForbiddenSnippets) =>
                /\ resp'.status = 400
                /\ resp'.body = "forbidden_tex"
                /\ resp'.source = "none"
                /\ UNCHANGED svgvars
        /\ (resp'.op = "tex_svg" /\ resp'.stage = "lookup" /\ resp'.request.method = "GET") =>
                LET tex == IF resp'.request.tex \in {JMissing, JStr(<<>>)}
                              /\ resp'.request.qid \in {JStr(<<"1">>), JStr(<<"2">>)}
                           THEN QuestionRow(PyInt(resp'.request.qid).v).stem_md
                           ELSE IF resp'.request.tex = JMissing THEN NoTex
                           ELSE resp'.request.tex.s
                IN  tex \in ForbiddenSnippets => resp'.tex = tex ]_vars

\* the stem of question 2, asked for through qid, is refused while the cache
\* holds a file for that very snippet
C8_Witness ==
    /\ resp.op = "tex_svg"
    /\ resp.stage = "lookup"
    /\ resp.request.qid = JStr(<<"2">>)
    /\ resp.request.tex = JMissing
    /\ resp.tex = SnippetInputBraced
    /\ resp.body = "forbidden_tex"
    /\ CachePath(sha1(SnippetInputBraced), ".svg") \in DOMAIN files

(***************************************************************************)
(* views.evaluate_answer, called on its own.                               *)
(***************************************************************************)
\* the values of answer["choice"] and correct["choice"]
EvalChoices == {JMissing, JNull, JStr(<<"A">>), JStr(<<"B">>), JStr(<<"a">>)}

\* the values of answer["value"] and correct["value"]
EvalValues == {JMissing, JNull, JInt(2), JInt(7), JStr(<<"2">>), JStr(<<"x">>), JStr(<<>>)}

\* the values of answer["text"] and correct["text"]
EvalTexts ==
    {JMissing, JNull, JStr(<<>>), JStr(<<"a", "B">>), JStr(<<"A", " ", "b">>),
     JStr(<<"a", "\t", "b", "\n">>), JStr(<<"a", "c">>)}

\* request.data.get("answer") or {}: a dict with one key, or none
EvalSubmitted ==
    { [NoAnswer EXCEPT !.choice = c] : c \in EvalChoices }
        \cup { [NoAnswer EXCEPT !.value = v] : v \in EvalValues }
        \cup { [NoAnswer EXCEPT !.text = t] : t \in EvalTexts }

\* Question.correct: None or {} (no key at all), or a dict with an answer
NoCorrect == [choice |-> JMissing, value |-> JMissing, text |-> JMissing, tolerance |-> JMissing]
EvalCorrect ==
    { [NoCorrect EXCEPT !.choice = c] : c \in EvalChoices }
        \cup { [NoCorrect EXCEPT !.value = v] : v \in EvalValues }
        \cup { [NoCorrect EXCEPT !.value = JInt(2), !.tolerance = JInt(5)] }
        \cup { [NoCorrect EXCEPT !.text = t] : t \in EvalTexts }

\* Question.type: the four TYPE_CHOICES and a value outside them
EvalTypes == {"mcq", "numeric", "short", "algebra", "essay"}

EvalCalls ==
    { [fn |-> "evaluate_answer", q |-> [type |-> t, correct |-> c], submitted |-> a] :
        t \in EvalTypes, c \in EvalCorrect, a \in EvalSubmitted }

InitEval ==
    /\ InitServer
    /\ call \in EvalCalls
    /\ ret = NoResult

\* is_correct = evaluate_answer(q, submitted)
call_evaluate_answer ==
    /\ call.fn = "evaluate_answer"
    /\ ~ret.returned
    /\ ret' = [returned |-> TRUE, value |-> evaluate_answer(call.q, call.submitted)]
    /\ UNCHANGED <<call, attempts, items, views, viewlogs, now, resp, TECTONIC_BIN, svgvars, uservars, walkvars>>

NextEval == call_evaluate_answer

SpecEval == InitEval /\ [][NextEval]_vars

\* what dict.get reads for the choice: None when the key is absent
ChoiceRead(d) == IF d.choice = JMissing THEN JNull ELSE d.choice

\* a text lower-cased and stripped of all whitespace; no text reads as empty
Squeezed(j) ==
    LET s == IF j \in {JMissing, JNull} THEN <<>> ELSE j.s
        kept == SelectSeq(s, LAMBDA c : c \notin {" ", "\t", "\n"})
    IN  [i \in DOMAIN kept |-> IF kept[i] = "A" THEN "a" ELSE IF kept[i] = "B" THEN "b" ELSE kept[i]]

\* the values of the model that are numbers
IsNumber(j) == j \in {JInt(2), JInt(7), JStr(<<"2">>)}

\* C11: evaluate_answer returns True for mcq exactly when the submitted choice
\* equals the correct choice, for short and algebra exactly when the two texts
\* are equal once lower-cased and stripped of whitespace, False for numeric
\* when either value is not a number, and False for any other type.
C11_EvaluateAnswer ==
    (call.fn = "evaluate_answer" /\ ret.returned) =>
        /\ call.q.type = "mcq" =>
                (ret.value <=> ChoiceRead(call.submitted) = ChoiceRead(call.q.correct))
        /\ call.q.type \in {"short", "algebra"} =>
                (ret.value <=> Squeezed(call.submitted.text) = Squeezed(call.q.correct.text))
        /\ ( /\ call.q.type = "numeric"
             /\ ~IsNumber(call.submitted.value) \/ ~IsNumber(call.q.correct.value) ) =>
                ret.value = FALSE
        /\ call.q.type \notin {"mcq", "numeric", "short", "algebra"} => ret.value = FALSE

\* an algebra answer that differs from the key in case and whitespace is graded correct
C11_Witness ==
    /\ call.fn = "evaluate_answer"
    /\ ret.returned
    /\ call.q.type = "algebra"
    /\ call.submitted.text = JStr(<<"a", "\t", "b", "\n">>)
    /\ call.q.correct.text = JStr(<<"A", " ", "b">>)
    /\ ret.value = TRUE

(***************************************************************************)
(* models.ensure_student_profile: the post_save receiver of User.  Every   *)
(* SQL statement is a step, and the steps of the workers interleave.       *)
(***************************************************************************)
\* the User rows created
MaxUsers == 2

\* the ids the first User row of a run may get
FirstUserIds == {1, 99, 999999}

DigitChar(d) ==
    CASE d = 0 -> "0" [] d = 1 -> "1" [] d = 2 -> "2" [] d = 3 -> "3" [] d = 4 -> "4"
      [] d = 5 -> "5" [] d = 6 -> "6" [] d = 7 -> "7" [] d = 8 -> "8" [] OTHER -> "9"

RECURSIVE Decimal(_)
\* the decimal digits of n
Decimal(n) == IF n < 10 THEN <<DigitChar(n)>> ELSE Decimal(n \div 10) \o <<DigitChar(n % 10)>>

\* the 06 of the format specification
ZeroPad(s, width) == IF Len(s) >= width THEN s ELSE [i \in 1..(width - Len(s)) |-> "0"] \o s

\* f"S{instance.id:06d}"
sid_format(id) == <<"S">> \o ZeroPad(Decimal(id), 6)

\* the sid of a row created without one: CharField's empty string
BlankSid == <<>>

\* unique=True on sid: another row already holds the value
SidTaken(sid, user) == \E u \in DOMAIN profiles : u /= user /\ profiles[u] = sid

\* User.save() of a new user: the INSERT, after which post_save is sent
\* with created=True
User_save(w) ==
    /\ sig_pc[w] = "idle"
    /\ Cardinality(users) < MaxUsers
    /\ users' = users \cup {next_user_id}
    /\ next_user_id' = next_user_id + 1
    /\ sig_user' = [sig_user EXCEPT ![w] = next_user_id]
    /\ sig_pc' = [sig_pc EXCEPT ![w] = "post_save created"]
    /\ UNCHANGED <<profiles, sig_errors>>

\* User.save() of an existing user: the UPDATE, after which post_save is sent
\* with created=False
User_save_existing(w, u) ==
    /\ sig_pc[w] = "idle"
    /\ u \in users
    /\ sig_user' = [sig_user EXCEPT ![w] = u]
    /\ sig_pc' = [sig_pc EXCEPT ![w] = "post_save"]
    /\ UNCHANGED <<users, profiles, next_user_id, sig_errors>>

\* ensure_student_profile up to StudentProfile.objects.create(user=instance)
\* (models.py 90-96): the INSERT of a row with a blank sid
ensure_student_profile(w) ==
    /\ sig_pc[w] \in {"post_save", "post_save created"}
    /\ IF sig_pc[w] = "post_save"
       THEN /\ sig_pc' = [sig_pc EXCEPT ![w] = "idle"]
            /\ sig_user' = [sig_user EXCEPT ![w] = 0]
            /\ UNCHANGED <<profiles, sig_errors>>
       ELSE IF sig_user[w] \in DOMAIN profiles \/ SidTaken(BlankSid, sig_user[w])
       THEN \* IntegrityError leaves the receiver and User.save()
            /\ sig_errors' = sig_errors \cup {sig_user[w]}
            /\ sig_pc' = [sig_pc EXCEPT ![w] = "idle"]
            /\ sig_user' = [sig_user EXCEPT ![w] = 0]
            /\ UNCHANGED profiles
       ELSE /\ profiles' = [u \in DOMAIN profiles \cup {sig_user[w]} |->
                                IF u = sig_user[w] THEN BlankSid ELSE profiles[u]]
            /\ sig_pc' = [sig_pc EXCEPT ![w] = "set sid"]
            /\ UNCHANGED <<sig_user, sig_errors>>
    /\ UNCHANGED <<users, next_user_id>>

\* profile.sid = ...; profile.save() (models.py 97-98): the UPDATE
profile_save(w) ==
    /\ sig_pc[w] = "set sid"
    /\ IF SidTaken(sid_format(sig_user[w]), sig_user[w])
       THEN /\ sig_errors' = sig_errors \cup {sig_user[w]}
            /\ UNCHANGED profiles
       ELSE /\ profiles' = [profiles EXCEPT ![sig_user[w]] = sid_format(sig_user[w])]
            /\ UNCHANGED sig_errors
    /\ sig_pc' = [sig_pc EXCEPT ![w] = "idle"]
    /\ sig_user' = [sig_user EXCEPT ![w] = 0]
    /\ UNCHANGED <<users, next_user_id>>

nonuservars == <<attempts, items, views, viewlogs, now, resp, TECTONIC_BIN, svgvars, callvars, walkvars>>

InitUserSaves ==
    /\ InitDb /\ InitTex /\ InitWorkers /\ InitCalls /\ InitWalk
    /\ files = NoFiles /\ data = NoFiles
    /\ users = {}
    /\ profiles = NoFiles
    /\ next_user_id \in FirstUserIds
    /\ sig_pc = [w \in Workers |-> "idle"]
    /\ sig_user = [w \in Workers |-> 0]
    /\ sig_errors = {}

NextUsers ==
    \/ \E w \in Workers : User_save(w) /\ UNCHANGED nonuservars
    \/ \E w \in Workers, u \in users : User_save_existing(w, u) /\ UNCHANGED nonuservars
    \/ \E w \in Workers : ensure_student_profile(w) /\ UNCHANGED nonuservars
    \/ \E w \in Workers : profile_save(w) /\ UNCHANGED nonuservars

SpecUsers == InitUserSaves /\ [][NextUsers]_vars

RECURSIVE DecimalValue(_)
\* the number a sequence of decimal digits writes
DecimalValue(ds) ==
    IF ds = <<>> THEN 0
    ELSE 10 * DecimalValue(SubSeq(ds, 1, Len(ds) - 1))
            + (CHOOSE d \in 0..9 : DigitChar(d) = ds[Len(ds)])

\* sid is "S" followed by id written with at least six digits, zeros in front
SidDenotes(sid, id) ==
    /\ Len(sid) >= 7
    /\ sid[1] = "S"
    /\ \A i \in 2..Len(sid) : \E d \in 0..9 : sid[i] = DigitChar(d)
    /\ DecimalValue(Tail(sid)) = id
    /\ Len(sid) > 7 => sid[2] /= "0"

\* every user has a profile with the sid of its id, and the sids differ
ProfilesInOrder ==
    /\ \A u \in users : u \in DOMAIN profiles /\ SidDenotes(profiles[u], u)
    /\ \A u, v \in DOMAIN profiles : u /= v => profiles[u] /= profiles[v]

\* C12: once the saves in progress have ended, every User has exactly one
\* StudentProfile, its sid is "S" and the user id zero-padded to six digits,
\* and no two profiles share a sid.
C12_OneProfilePerUser ==
    (\A w \in Workers : sig_pc[w] = "idle") => ProfilesInOrder

\* C12, as far as it holds: the same after the runs in which no save raised
\* IntegrityError, and a save of an existing user leaves the profiles alone.
C12_WhenNoSaveFailed ==
    [][ /\ ((\A w \in Workers : sig_pc'[w] = "idle") /\ sig_errors' = {}) => ProfilesInOrder'
        /\ \A w \in Workers :
              (sig_pc[w] = "post_save" /\ sig_pc'[w] = "idle") => profiles' = profiles ]_vars

\* a user was created while another user's profile still had its blank sid,
\* and is left without a profile
C12_UserWithoutProfile ==
    /\ \A w \in Workers : sig_pc[w] = "idle"
    /\ \E u \in users : u \notin DOMAIN profiles /\ u \in sig_errors

(***************************************************************************)
(* views.student_stats_api: what the signed-in student viewed and got      *)
(* right.                                                                  *)
(***************************************************************************)
\* a slip: the rows are not grouped, every row is a group of its own
group_by_pair_ungrouped(rows) ==
    [i \in DOMAIN rows |->
        [attempt |-> rows[i].attempt, question |-> rows[i].question, total_ms |-> rows[i].view_ms]]

RECURSIVE group_rows(_, _)
\* the rows added one by one to the found found so far
group_rows(found, rows) ==
    IF rows = <<>> THEN found
    ELSE LET r == Head(rows)
             same == { i \in DOMAIN found :
                         found[i].attempt = r.attempt /\ found[i].question = r.question }
         IN  IF same = {}
             THEN group_rows(Append(found, [attempt |-> r.attempt, question |-> r.question,
                                             total_ms |-> r.view_ms]), Tail(rows))
             ELSE LET i == CHOOSE j \in same : TRUE
                  IN  group_rows([found EXCEPT ![i].total_ms = @ + r.view_ms], Tail(rows))

\* .values("attempt_id", "question_id").annotate(total_ms=Sum("view_ms")):
\* one group per (attempt_id, question_id), with the sum of its rows
group_by_pair(rows) == group_rows(<<>>, rows)

RECURSIVE SumTotals(_)
SumTotals(gs) == IF gs = <<>> THEN 0 ELSE Head(gs).total_ms + SumTotals(Tail(gs))

\* round(n / d) of Python 3 for n >= 0, d > 0: to the nearest integer, a half to the even one
RoundHalfEven(n, d) ==
    LET q == n \div d
        r == n % d
    IN  IF 2 * r < d THEN q
        ELSE IF 2 * r > d THEN q + 1
        ELSE IF q % 2 = 0 THEN q ELSE q + 1

\* the quotient a / b, kept as the two numbers; 0.0 is 0 / 1
Ratio(a, b) == [num |-> a, den |-> b]

\* views.student_stats_api; the response carries viewed_count,
\* correct_viewed_count, accuracy and avg_view_ms
student_stats_api(user) ==
    /\ Idle
    /\ IF ~is_authenticated(user)
       THEN resp' = [op |-> "student_stats_api", user |-> user, status |-> 302,
                     body |-> [location |-> "login"]]
       ELSE LET attempt_ids == { a \in AttemptIds : attempts[a] = user }
                viewed_pairs_qs ==
                    group_by_pair(SelectSeq(views, LAMBDA r : r.attempt \in attempt_ids))
                viewed_pairs ==
                    [i \in DOMAIN viewed_pairs_qs |->
                        <<viewed_pairs_qs[i].attempt, viewed_pairs_qs[i].question>>]
                viewed_count == Len(viewed_pairs)
                correct_pairs ==
                    { <<items[i].attempt, items[i].question>> :
                        i \in { j \in DOMAIN items :
                                  items[j].attempt \in attempt_ids /\ items[j].is_correct } }
                correct_viewed_count ==
                    Cardinality({ i \in DOMAIN viewed_pairs : viewed_pairs[i] \in correct_pairs })
                accuracy == IF viewed_count /= 0 THEN Ratio(correct_viewed_count, viewed_count)
                            ELSE Ratio(0, 1)
                avg_view_ms == IF viewed_count /= 0
                               THEN RoundHalfEven(SumTotals(viewed_pairs_qs), viewed_count)
                               ELSE 0
            IN  resp' = [op |-> "student_stats_api", user |-> user, status |-> 200,
                         body |-> [viewed_count |-> viewed_count,
                                   correct_viewed_count |-> correct_viewed_count,
                                   accuracy |-> accuracy,
                                   avg_view_ms |-> avg_view_ms]]
    /\ UNCHANGED dbvars

\* the students whose requests are followed
StatsRequesters == {1, 2}

\* the bodies the page posts when a question leaves the screen
StatsViewBodies ==
    { [json |-> "object", question_id |-> JInt(q), view_ms |-> JInt(2)] : q \in QuestionIds }

\* the answer the page sends: right for question 1, wrong for question 2
StatsAnswers == { [NoAnswer EXCEPT !.choice = JStr(<<"A">>)] }

NextStats ==
    \/ SendResponse
    \/ \E user \in StatsRequesters : create_attempt(user)
    \/ \E user \in StatsRequesters, attempt_id \in AttemptIdArgs,
          question_id \in QuestionIds, answer \in StatsAnswers :
            submit_attempt_item(user, attempt_id, question_id, answer, now)
    \/ \E user \in StatsRequesters, attempt_id \in AttemptIdArgs, body \in StatsViewBodies :
            request_attempt_views(user, "POST", attempt_id, body)
    \/ \E user \in StatsRequesters \cup {Anonymous} : student_stats_api(user)

SpecStats == Init /\ [][NextStats]_vars

\* the (attempt, question) pairs of user's own attempts with a view row
ViewedPairs(user) ==
    { <<views[i].attempt, views[i].question>> :
        i \in { j \in DOMAIN views : attempts[views[j].attempt] = user } }

\* those of them with a correct AttemptItem
CorrectViewedPairs(user) ==
    { p \in ViewedPairs(user) :
        \E i \in DOMAIN items :
            items[i].attempt = p[1] /\ items[i].question = p[2] /\ items[i].is_correct }

MaxBodyLen == 7

BeginEnum == "\\begin{enumerate}"
EndEnum == "\\end{enumerate}"
Item == "\\item"
BodyTokens == {BeginEnum, EndEnum, Item, "x", " "}

Bodies == UNION { [1..n -> BodyTokens] : n \in 0..MaxBodyLen }

\* body[a:b] with a, b counted as Python does, from 0
Slice(body, a, b) == SubSeq(body, a + 1, b)

\* x.strip() is empty
IsBlankText(x) == \A i \in DOMAIN x : x[i] = " "

\* _trim(s): leading and trailing whitespace removed
_trim(x) ==
    IF IsBlankText(x) THEN <<>>
    ELSE LET first == CHOOSE i \in DOMAIN x : x[i] /= " " /\ \A j \in 1..(i - 1) : x[j] = " "
             last == CHOOSE i \in DOMAIN x : x[i] /= " " /\ \A j \in (i + 1)..Len(x) : x[j] = " "
         IN  SubSeq(x, first, last)

\* a slip: the blocks that are blank are returned too
kept_items_with_blanks(found) == [i \in DOMAIN found |-> _trim(found[i])]

\* [_trim(x) for x in items if x.strip()]
kept_items(found) ==
    LET kept == SelectSeq(found, LAMBDA x : ~IsBlankText(x))
    IN  [i \in DOMAIN kept |-> _trim(kept[i])]

RECURSIVE walk_tokens(_, _, _)
\* the for loop of _split_top_level_items from token position pos (from 0) on;
\* st holds depth, items, current_start and end_index
walk_tokens(body, pos, st) ==
    IF pos >= Len(body) THEN st
    ELSE LET tok == body[pos + 1]
         IN  IF tok = BeginEnum
             THEN walk_tokens(body, pos + 1, [st EXCEPT !.depth = @ + 1])
             ELSE IF tok = EndEnum
             THEN IF st.depth = 1
                  THEN \* the item in progress is closed, and the loop is left
                       [st EXCEPT
                          !.items = IF st.current_start /= NoIndex
                                    THEN Append(@, Slice(body, st.current_start, pos))
                                    ELSE @,
                          !.current_start = NoIndex,
                          !.end_index = pos + 1,
                          !.depth = 0]
                  ELSE walk_tokens(body, pos + 1, [st EXCEPT !.depth = @ - 1])
             ELSE IF tok = Item /\ st.depth = 1
             THEN walk_tokens(body, pos + 1,
                    [st EXCEPT
                       !.items = IF st.current_start /= NoIndex
                                 THEN Append(@, Slice(body, st.current_start, pos))
                                 ELSE @,
                       !.current_start = pos + 1])
             ELSE walk_tokens(body, pos + 1, st)

\* import_tex._split_top_level_items(body)
_split_top_level_items(body) ==
    IF BeginEnum \notin Range(body)
    THEN [preamble |-> body, items |-> <<>>]
    ELSE LET enum_start == (CHOOSE i \in DOMAIN body :
                                body[i] = BeginEnum /\ \A j \in 1..(i - 1) : body[j] /= BeginEnum) - 1
             st == walk_tokens(body, enum_start,
                               [depth |-> 0, items |-> <<>>, current_start |-> NoIndex,
                                end_index |-> NoIndex])
             blocks == IF st.current_start /= NoIndex /\ st.end_index = NoIndex
                       THEN Append(st.items, Slice(body, st.current_start, Len(body)))
                       ELSE st.items
         IN  [preamble |-> Slice(body, 0, enum_start), items |-> kept_items(blocks)]

SplitCalls == { [fn |-> "_split_top_level_items", body |-> b] : b \in Bodies }

InitSplit ==
    /\ InitServer
    /\ TECTONIC_BIN = "None"
    /\ call \in SplitCalls
    /\ ret = NoResult

\* preamble, items = _split_top_level_items(body)
call_split_top_level_items ==
    /\ call.fn = "_split_top_level_items"
    /\ ~ret.returned
    /\ ret' = [returned |-> TRUE, value |-> _split_top_level_items(call.body)]
    /\ UNCHANGED <<call, attempts, items, views, viewlogs, now, resp, TECTONIC_BIN, svgvars, uservars, walkvars>>

NextSplit == call_split_top_level_items

SpecSplit == InitSplit /\ [][NextSplit]_vars

\* position (from 1) of the first \begin{enumerate} of the body, 0 if none
FirstEnumerate(body) ==
    IF \E i \in DOMAIN body : body[i] = BeginEnum
    THEN CHOOSE i \in DOMAIN body : body[i] = BeginEnum /\ \A j \in 1..(i - 1) : body[j] /= BeginEnum
    ELSE 0

\* the number of enumerate environments open just before position i
OpenEnumerates(body, i) ==
    LET first == FirstEnumerate(body)
    IN  Cardinality({ j \in DOMAIN body : first <= j /\ j < i /\ body[j] = BeginEnum })
          - Cardinality({ j \in DOMAIN body : first <= j /\ j < i /\ body[j] = EndEnum })

\* where the first top-level enumerate is closed; past the end if it never is
ClosingEnd(body) ==
    LET first == FirstEnumerate(body)
        closes == { i \in DOMAIN body : /\ i > first
                                        /\ body[i] = EndEnum
                                        /\ OpenEnumerates(body, i) = 1
                                        /\ \A j \in (first + 1)..(i - 1) :
                                              OpenEnumerates(body, j) >= 1 }
    IN  IF closes = {} THEN Len(body) + 1
        ELSE CHOOSE i \in closes : \A j \in closes : i <= j

\* the \item tokens of the first top-level enumerate, up to its close, that
\* have the given number of enumerates open
ItemsAtDepth(body, Deep(_)) ==
    LET first == FirstEnumerate(body)
        close == ClosingEnd(body)
    IN  { i \in DOMAIN body : /\ first > 0
                              /\ i > first
                              /\ i < close
                              /\ body[i] = Item
                              /\ Deep(OpenEnumerates(body, i)) }

\* the \item tokens at nesting depth 1 of the first top-level enumerate
TopLevelItems(body) == ItemsAtDepth(body, LAMBDA d : d = 1)

\* the \item tokens below depth 1 of the first top-level enumerate
NestedItems(body) == ItemsAtDepth(body, LAMBDA d : d > 1)

\* the k-th member of a set of positions, counted from 1
KthPosition(S, k) == CHOOSE x \in S : Cardinality({ y \in S : y < x }) = k - 1

\* the block a top-level \item at position i starts: up to the next of the
\* top-level items, or up to the close
BlockFrom(body, tops, close, i) ==
    LET later == { j \in tops : j > i } \cup {close}
        stop == CHOOSE j \in later : \A l \in later : j <= l
    IN  SubSeq(body, i + 1, stop - 1)

BlockOf(body, i) == BlockFrom(body, TopLevelItems(body), ClosingEnd(body), i)

RECURSIVE Stripped(_)
\* a block without its leading and trailing blanks
Stripped(x) ==
    IF x = <<>> THEN x
    ELSE IF Head(x) = " " THEN Stripped(Tail(x))
    ELSE IF x[Len(x)] = " " THEN Stripped(SubSeq(x, 1, Len(x) - 1))
    ELSE x

\* the blocks of the top-level items in document order, blanks stripped
TopLevelBlocks(body) ==
    LET tops == TopLevelItems(body)
        close == ClosingEnd(body)
    IN  [k \in 1..Cardinality(tops) |->
            Stripped(BlockFrom(body, tops, close, KthPosition(tops, k)))]

RECURSIVE ItemTokensIn(_)
\* how many \item tokens lie inside the blocks of a list
ItemTokensIn(blocks) ==
    IF blocks = <<>> THEN 0
    ELSE Len(SelectSeq(Head(blocks), LAMBDA t : t = Item)) + ItemTokensIn(Tail(blocks))

\* C14, as stated: the items returned are exactly the blocks started by an
\* \item at nesting depth 1 of the first top-level enumerate, in document
\* order, and the preamble is everything before the first \begin{enumerate}.
C14_ItemsAreTopLevelBlocks ==
    (call.fn = "_split_top_level_items" /\ ret.returned) =>
        /\ ret.value.items = TopLevelBlocks(call.body)
        /\ ret.value.preamble =
              IF FirstEnumerate(call.body) = 0 THEN call.body
              ELSE SubSeq(call.body, 1, FirstEnumerate(call.body) - 1)

\* C14, amended: the items returned are exactly the blocks that are not blank
\* among those started by an \item at nesting depth 1 of the first top-level
\* enumerate, in document order; an \item of a nested enumerate starts no
\* item, and the ones that follow a top-level \item are all found inside the
\* returned blocks; the preamble is everything before the first
\* \begin{enumerate}.
C14_NonBlankTopLevelBlocks ==
    (call.fn = "_split_top_level_items" /\ ret.returned) =>
        /\ ret.value.items = SelectSeq(TopLevelBlocks(call.body), LAMBDA x : x /= <<>>)
        /\ ItemTokensIn(ret.value.items) =
              Cardinality({ i \in NestedItems(call.body) :
                              \E j \in TopLevelItems(call.body) : j < i })
        /\ ret.value.preamble =
              IF FirstEnumerate(call.body) = 0 THEN call.body
              ELSE SubSeq(call.body, 1, FirstEnumerate(call.body) - 1)

\* a closed enumerate with a blank top-level item and an \item of a nested
\* enumerate has been split, and the blank block is not among the items
C14_Witness ==
    /\ call.fn = "_split_top_level_items"
    /\ ret.returned
    /\ ClosingEnd(call.body) <= Len(call.body)
    /\ NestedItems(call.body) /= {}
    /\ \E i \in TopLevelItems(call.body) : Stripped(BlockOf(call.body, i)) = <<>>
    /\ Len(ret.value.items) = 1
    /\ Cardinality(TopLevelItems(call.body)) = 2

(***************************************************************************)
(* import_mc_enumerate: handle's walk over the TOKEN_RE matches of one     *)
(* file.  A file is a sequence of pieces; TOKEN_RE matches some of them.   *)
(***************************************************************************)
\* the longest file
MaxTexLen == 6

LabelOuter == "label=\\textbf{A\\arabic*}"
LabelAlph == "label=(\\Alph*)"
\* \begin{enumerate}[label=\textbf{A\arabic*}]
BeginOuter == "\\begin{enumerate}[" \o LabelOuter \o "]"
\* \begin{enumerate}[label=(\Alph*)]
BeginAlph == "\\begin{enumerate}[" \o LabelAlph \o "]"
\* \item at the start of a line
ItemLine == "\n\\item "

TexPieces == {BeginOuter, BeginAlph, BeginEnum, EndEnum, ItemLine, "x"}
TexFiles == UNION { [1..n -> TexPieces] : n \in 0..MaxTexLen }

\* TOKEN_RE matches the piece: a begin needs its [options], an \item the line start
TOKEN_RE_match(piece) == piece \in {BeginOuter, BeginAlph, EndEnum, ItemLine}

\* m.group("opt") of a begin token
group_opt(tok) == IF tok = BeginOuter THEN LabelOuter ELSE LabelAlph

\* handle.active_label
active_label(stk) == IF stk /= <<>> THEN stk[Len(stk)] ELSE NoLabel

\* "A\\arabic*" in lbl or "\\textbf{A\\arabic*" in lbl
is_problem_label(lbl) == lbl \in {LabelOuter}

ImportCalls == { [fn |-> "import_mc_enumerate", tex |-> t] : t \in TexFiles }

\* tex = f.read_text(...); the walk's locals are set up
read_text ==
    /\ call.fn = "import_mc_enumerate"
    /\ walk_pc = "idle"
    /\ walk_pc' = "walk"
    /\ tok_pos' = 0
    /\ stack' = <<>>
    /\ current_item_start' = NoIndex
    /\ current_item_label' = NoLabel
    /\ problem_items' = <<>>
    /\ UNCHANGED <<attempts, items, views, viewlogs, now, resp, TECTONIC_BIN, svgvars, callvars, uservars>>

\* the pieces from tok_pos on that TOKEN_RE matches
MatchesLeft == { i \in DOMAIN call.tex : i > tok_pos /\ TOKEN_RE_match(call.tex[i]) }

\* one round of `for m in TOKEN_RE.finditer(tex)`
next_token ==
    /\ walk_pc = "walk"
    /\ MatchesLeft /= {}
    /\ LET m == CHOOSE i \in MatchesLeft : \A j \in MatchesLeft : i <= j
           tok == call.tex[m]
           m_start == m - 1
           m_end == m
           lbl == IF active_label(stack) = NoLabel THEN "" ELSE active_label(stack)
       IN  /\ tok_pos' = m_end
           /\ IF tok \in {BeginOuter, BeginAlph}
              THEN /\ stack' = Append(stack, group_opt(tok))
                   /\ UNCHANGED <<current_item_start, current_item_label, problem_items>>
              ELSE IF tok = EndEnum
              THEN /\ IF current_item_start /= NoIndex /\ current_item_label = active_label(stack)
                      THEN /\ problem_items' =
                                Append(problem_items, Slice(call.tex, current_item_start, m_start))
                           /\ current_item_start' = NoIndex
                           /\ current_item_label' = NoLabel
                      ELSE UNCHANGED <<current_item_start, current_item_label, problem_items>>
                   /\ stack' = IF stack /= <<>> THEN SubSeq(stack, 1, Len(stack) - 1) ELSE stack
              ELSE /\ IF is_problem_label(lbl)
                      THEN /\ problem_items' =
                                IF current_item_start /= NoIndex
                                THEN Append(problem_items, Slice(call.tex, current_item_start, m_start))
                                ELSE problem_items
                           /\ current_item_start' = m_end
                           /\ current_item_label' = lbl
                      ELSE UNCHANGED <<current_item_start, current_item_label, problem_items>>
                   /\ UNCHANGED stack
    /\ UNCHANGED walk_pc
    /\ UNCHANGED <<attempts, items, views, viewlogs, now, resp, TECTONIC_BIN, svgvars, callvars, uservars>>

\* the loop is over: finalize last item (if file ended without closing)
finalize_last_item ==
    /\ walk_pc = "walk"
    /\ MatchesLeft = {}
    /\ problem_items' =
          IF current_item_start /= NoIndex
          THEN Append(problem_items, Slice(call.tex, current_item_start, Len(call.tex)))
          ELSE problem_items
    /\ walk_pc' = "done"
    /\ UNCHANGED <<tok_pos, stack, current_item_start, current_item_label>>
    /\ UNCHANGED <<attempts, items, views, viewlogs, now, resp, TECTONIC_BIN, svgvars, callvars, uservars>>

InitImport ==
    /\ InitServer
    /\ TECTONIC_BIN = "None"
    /\ call \in ImportCalls
    /\ ret = NoResult

NextImport ==
    \/ read_text
    \/ next_token
    \/ finalize_last_item

SpecImport == InitImport /\ [][NextImport]_vars

RECURSIVE OpenAfter(_, _)
\* the enumerate environments open after the first n pieces of a file, the
\* innermost last, each by the piece that began it
OpenAfter(t, n) ==
    IF n = 0 THEN <<>>
    ELSE LET before == OpenAfter(t, n - 1)
         IN  IF t[n] \in {BeginOuter, BeginAlph, BeginEnum} THEN Append(before, t[n])
             ELSE IF t[n] = EndEnum /\ before /= <<>> THEN SubSeq(before, 1, Len(before) - 1)
             ELSE before

\* the \item pieces that belong to an outer A\arabic* enumerate
OuterItems(t) ==
    { i \in DOMAIN t : /\ t[i] = ItemLine
                       /\ OpenAfter(t, i - 1) /= <<>>
                       /\ OpenAfter(t, i - 1)[Len(OpenAfter(t, i - 1))] = BeginOuter }

\* the block of an outer \item: up to the next \item of an outer enumerate, or
\* the \end{enumerate} of its own enumerate, or the end of the file
OuterBlock(t, i) ==
    LET stops == { j \in DOMAIN t :
                     /\ j > i
                     /\ \/ j \in OuterItems(t)
                        \/ /\ t[j] = EndEnum
                           /\ Len(OpenAfter(t, j - 1)) = Len(OpenAfter(t, i)) } \cup {Len(t) + 1}
        stop == CHOOSE j \in stops : \A l \in stops : j <= l
    IN  SubSeq(t, i + 1, stop - 1)

OuterBlocks(t) ==
    LET outer == OuterItems(t)
    IN  [k \in 1..Cardinality(outer) |-> OuterBlock(t, KthPosition(outer, k))]

\* C15: while import_mc_enumerate walks the tokens its stack depth is the
\* number of enumerate environments open at the token, and the problem items
\* it has collected at the end are exactly the \item blocks of the outer
\* A\arabic* enumerate, none of them started by an \item of an inner one.
C15_StackTracksNesting ==
    (call.fn = "import_mc_enumerate") =>
        /\ walk_pc = "walk" => Len(stack) = Len(OpenAfter(call.tex, tok_pos))
        /\ walk_pc = "done" => problem_items = OuterBlocks(call.tex)

\* every \begin{enumerate} of the file carries [options], and an A\arabic*
\* enumerate is never opened inside another enumerate
OptionsEverywhere(t) ==
    /\ BeginEnum \notin Range(t)
    /\ \A i \in DOMAIN t : t[i] = BeginOuter => OpenAfter(t, i - 1) = <<>>

\* The same holds of every file whose \begin{enumerate} all carry [options]
\* and whose A\arabic* enumerates are outermost.
C15_WhenBeginsCarryOptions ==
    (call.fn = "import_mc_enumerate" /\ OptionsEverywhere(call.tex)) =>
        /\ walk_pc = "walk" => Len(stack) = Len(OpenAfter(call.tex, tok_pos))
        /\ walk_pc = "done" => problem_items = OuterBlocks(call.tex)

\* a closed inner enumerate without options has been walked inside an item of
\* the outer enumerate, and its \item was collected as a problem
C15_InnerItemImported ==
    /\ call.fn = "import_mc_enumerate"
    /\ walk_pc = "done"
    /\ call.tex = <<BeginOuter, ItemLine, BeginEnum, ItemLine, EndEnum, EndEnum>>
    /\ Len(problem_items) = 2

====
